---- MODULE Spec2Model ----
(***************************************************************************)
(* Model of ContentProcessor (content_processor.py): the directory walk,   *)
(* the per-page skip check, the token chunker and the restructuring client *)
(* (send_to_gpt), the artifact writes and the processed-file ledger.       *)
(*                                                                         *)
(* Text is a sequence of characters.  The filesystem is a set of artifact  *)
(* names (directory content/) and a sequence of lines (the ledger file).   *)
(*                                                                         *)
(* Four specifications: Spec, the pipeline over two roots of files;        *)
(* SpecChunk, the chunker on its own; SpecGpt, send_to_gpt with the        *)
(* retries of its session; SpecExtract, the PDF and DOCX extractors.       *)
(***************************************************************************)
EXTENDS Integers, Sequences, FiniteSets, TLC

VARIABLES
    pc,                   \* position of the process in the pipeline
    run,                  \* which execution of the program this is
    extracted,            \* what the extractors return for each source file
    disk,                 \* artifact files present under base_dir/content
    ledger_file,          \* lines of base_dir/logs/processed_files.txt
    processed_files,      \* self.processed_files
    root,                 \* 1: pdf_directory, 2: doc_directory
    file_idx,             \* index of the file of the root being visited
    pages_content,        \* pages_content of the current file
    page_idx,             \* index of page_data in pages_content
    chunks,               \* chunks of the current send_to_gpt call
    idx,                  \* idx of the chunk loop
    restructured_content, \* accumulator of send_to_gpt
    outcomes,             \* per chunk of the latest call: its content, or Failed
    result,               \* what the latest send_to_gpt call returned
    sent,                 \* pages for which a request was issued in this run
    absent_before,        \* pages whose result was absent in an earlier run
    absent,               \* pages whose result was absent in this run
    visited_files,        \* files the file loop reached in this run
    visited_pages,        \* pages the page loop reached in this run
    partial,              \* the result being persisted lacks a failed chunk
    terminal,             \* how each page, each file ended in this run
    writes,               \* artifact files written in this run
    gChunks, gIdx, gAttempts, gResponse, gContent, gOutcomes, gPc,
                          \* send_to_gpt and its transport on their own
    xFile, xPage, xPages, xOcr, xPc,  \* the extractors on their own
    cText, cMax, cTokens, cWindows, cChunks, cPc  \* the chunker on its own

vars == << pc, run, extracted, disk, ledger_file, processed_files, root,
           file_idx, pages_content, page_idx, chunks, idx,
           restructured_content, outcomes, result, sent, absent_before,
           absent, visited_files, visited_pages, partial, terminal,
           writes,
           cText, cMax, cTokens, cWindows, cChunks, cPc,
           gChunks, gIdx, gAttempts, gResponse, gContent, gOutcomes, gPc,
           xFile, xPage, xPages, xOcr, xPc >>

pipelineVars == << pc, run, extracted, disk, ledger_file, processed_files,
                   root, file_idx, pages_content, page_idx, chunks, idx,
                   restructured_content, outcomes, result, sent,
                   absent_before, absent, visited_files, visited_pages,
                   partial, terminal, writes >>

chunkerVars == << cText, cMax, cTokens, cWindows, cChunks, cPc >>

gptVars == << gChunks, gIdx, gAttempts, gResponse, gContent, gOutcomes,
              gPc >>

extractVars == << xFile, xPage, xPages, xOcr, xPc >>

----------------------------------------------------------------------------
(* Bounds *)

MaxRuns == 2            \* executions of the program over the same inputs
MaxChunkTokens == 3     \* stands for max_chunk_tokens of the pipeline's calls
MaxTextLen == 4         \* longest text given to the chunker on its own
MaxTok == 3             \* largest max_chunk_tokens given to the chunker
MaxPdfPages == 2        \* most pages of a PDF given to the extractor
MaxDocxElements == 2    \* most body elements of a DOCX given to the extractor

----------------------------------------------------------------------------
(* Values *)

None == "None"          \* Python's None
Failed == "Failed"      \* a chunk whose request did not succeed

\* no request of send_to_gpt is on the wire
NoResponse == [resp |-> [kind |-> "none", content |-> << >>], status |-> 0]

\* no file is given to the extractors
NoFile == [kind |-> "none", openable |-> FALSE, pages |-> << >>,
           elements |-> << >>]

\* a call of send_to_gpt some of whose chunks failed and some did not
Partial(outs) ==
    /\ \E i \in DOMAIN outs : outs[i] = Failed
    /\ \E i \in DOMAIN outs : outs[i] # Failed

\* a page or a file ends: persisted and recorded ("Done"), passed over
\* ("Skipped"), or given up with a logged error ("Failed")
End(unit, state) == [unit |-> unit, state |-> state]
NL == <<"\n">>          \* the line break appended after each response

Min(a, b) == IF a < b THEN a ELSE b

RECURSIVE Flatten(_)
Flatten(ss) == IF ss = << >> THEN << >> ELSE Head(ss) \o Flatten(Tail(ss))

----------------------------------------------------------------------------
(* Tokenizer: tiktoken's encoding for gpt-4 is a byte-level BPE.  A token  *)
(* is a run of bytes and need not end on a character boundary: character   *)
(* "E" stands for a character whose UTF-8 bytes are split over two tokens  *)
(* ("E1", "E2").  decode joins the bytes of the tokens and decodes them as *)
(* UTF-8 with errors="replace": an incomplete character becomes "R"        *)
(* (U+FFFD).                                                               *)

Chars == {"a", "b", "E"}

EncodeChar(c) == IF c = "E" THEN <<"E1", "E2">> ELSE <<c>>

RECURSIVE Encode(_)
Encode(text) ==
    IF text = << >> THEN << >>
    ELSE EncodeChar(Head(text)) \o Encode(Tail(text))

RECURSIVE Decode(_)
Decode(tokens) ==
    IF tokens = << >> THEN << >>
    ELSE IF Head(tokens) = "E1"
         THEN IF Len(tokens) >= 2 /\ tokens[2] = "E2"
              THEN <<"E">> \o Decode(Tail(Tail(tokens)))
              ELSE <<"R">> \o Decode(Tail(tokens))
    ELSE IF Head(tokens) = "E2"
         THEN <<"R">> \o Decode(Tail(tokens))
    ELSE <<Head(tokens)>> \o Decode(Tail(tokens))

\* Python's s[lo:hi] on a sequence (0-based, hi exclusive, clipped)
Slice(s, lo, hi) == SubSeq(s, lo + 1, Min(hi, Len(s)))

\* range(0, n, step)
RangeStarts(n, step) == {i \in 0..(n - 1) : i % step = 0}

\* a chunker whose slices stop one token early
TokenWindowsShort(tokens, max_chunk_tokens) ==
    [k \in 1..Cardinality(RangeStarts(Len(tokens), max_chunk_tokens)) |->
        Slice(tokens, (k - 1) * max_chunk_tokens,
                      (k - 1) * max_chunk_tokens + max_chunk_tokens - 1)]

\* tokens[i:i + max_chunk_tokens] for i in range(0, len(tokens), max_chunk_tokens)
TokenWindows(tokens, max_chunk_tokens) ==
    [k \in 1..Cardinality(RangeStarts(Len(tokens), max_chunk_tokens)) |->
        Slice(tokens, (k - 1) * max_chunk_tokens,
                      (k - 1) * max_chunk_tokens + max_chunk_tokens)]

\* the list chunks of send_to_gpt
BuildChunks(content, max_chunk_tokens) ==
    LET windows == TokenWindows(Encode(content), max_chunk_tokens)
    IN  [k \in 1..Len(windows) |-> Decode(windows[k])]

----------------------------------------------------------------------------
(* Source files under the two roots, in the order os.walk yields them *)

PdfDirectory ==
    << [dir |-> "PDF",     base |-> "a",      ext |-> ".pdf"],
       [dir |-> "PDF",     base |-> "readme", ext |-> ".txt"],
       [dir |-> "PDF/sub", base |-> "a",      ext |-> ".pdf"] >>

DocDirectory ==
    << [dir |-> "Doc",     base |-> "b",      ext |-> ".docx"] >>

Roots == << PdfDirectory, DocDirectory >>

AllFiles == {Roots[r][i] : r \in {1}, i \in 1..Len(PdfDirectory)}
            \cup {Roots[r][i] : r \in {2}, i \in 1..Len(DocDirectory)}

Eligible(file) == file.ext \in {".pdf", ".doc", ".docx"}

\* os.path.basename(file_path)
Basename(path) == [dir |-> "", base |-> path.base, ext |-> path.ext]

Page(n, text) == [page |-> n, text |-> text]

\* What extract_text_from_pdf can return for a file: the pages with text,
\* in increasing page order, each wrapped in its markers ("#").
PdfExtractions(file) ==
    IF file.dir = "PDF"
    THEN { << >>,
           << Page(1, <<"#", "a", "E">>) >>,
           << Page(2, <<"#", "a">>) >>,
           << Page(1, <<"#", "a", "E">>), Page(2, <<"#", "a">>) >> }
    ELSE { << Page(1, <<"#", "b">>) >> }

\* What extract_text_from_docx can return: no page (exception), or one page
\* numbered 1 whose text may be empty.
DocxExtractions(file) ==
    { << >>, << Page(1, << >>) >>, << Page(1, <<"b">>) >> }

Extractions(file) ==
    IF file.ext = ".pdf" THEN PdfExtractions(file) ELSE DocxExtractions(file)

----------------------------------------------------------------------------
(* Filenames *)

\* hashlib.md5(url)[:8], taken to be free of collisions: the url itself
UrlHash(url) == url

sanitize_filename(url, file_type, extension, page_number) ==
    [name |-> Basename(url).base, page |-> page_number,
     hash |-> UrlHash(url), suffix |-> extension]

\* os.path.join(self.base_dir, 'content', filename)
ContentPath(filename) == [dir |-> "content", name |-> filename]

\* os.path.basename of an output path
PathBasename(path) == path.name

\* save_path of a page of a file
SavePath(file, page_number) ==
    ContentPath(sanitize_filename(Basename(file), "Doc", "_restructured.txt",
                                  page_number))

\* raw_save_path of a page of a file
RawSavePath(file, page_number) ==
    ContentPath(sanitize_filename(Basename(file), "Doc", "_raw_page.txt",
                                  page_number))

\* the save_path of every page the extractors can return
RestructuredPaths ==
    UNION { UNION { {SavePath(f, x[i].page) : i \in DOMAIN x} :
                    x \in Extractions(f) } :
            f \in {g \in AllFiles : Eligible(g)} }

\* os.path.exists(save_path)
Exists(path) == path \in disk

\* the context sent to GPT: the page text between its page markers
Context(page_data) == <<"[">> \o page_data.text \o <<"]">>

PageId(file, page_number) == [file |-> file, page |-> page_number]

----------------------------------------------------------------------------
(* The pipeline *)

\* a set of ledger lines as the lines of a file
RECURSIVE LinesOf(_)
LinesOf(S) ==
    IF S = {} THEN << >>
    ELSE LET l == CHOOSE x \in S : TRUE IN <<l>> \o LinesOf(S \ {l})

CurrentFile == Roots[root][file_idx]
page_data == pages_content[page_idx]
save_path == SavePath(CurrentFile, page_data.page)
raw_save_path == RawSavePath(CurrentFile, page_data.page)
CurrentPage == PageId(CurrentFile, page_data.page)

\* the chunker, send_to_gpt and the extractors on their own, not running
GptIdle ==
    /\ gChunks = << >> /\ gIdx = 1 /\ gAttempts = 0 /\ gResponse = NoResponse
    /\ gContent = << >> /\ gOutcomes = << >> /\ gPc = "off"

ChunkerIdle ==
    /\ cText = << >> /\ cMax = 1 /\ cTokens = << >>
    /\ cWindows = << >> /\ cChunks = << >> /\ cPc = "off"

ExtractIdle ==
    /\ xFile = NoFile /\ xPage = 0 /\ xPages = << >> /\ xOcr = {}
    /\ xPc = "off"

\* The filesystem the first execution finds is an input: artifacts and ledger
\* lines left under base_dir by earlier use of the directory.
InitialLedgers == {{}, RestructuredPaths}

Init ==
    /\ pc = "start"
    /\ run = 1
    /\ extracted \in [{f \in AllFiles : Eligible(f)} ->
                        UNION {Extractions(f) : f \in AllFiles}]
    /\ \A f \in DOMAIN extracted : extracted[f] \in Extractions(f)
    /\ disk \in SUBSET RestructuredPaths
    /\ \E S \in InitialLedgers : ledger_file = LinesOf(S)
    /\ processed_files = {}
    /\ root = 1
    /\ file_idx = 1
    /\ pages_content = << >>
    /\ page_idx = 1
    /\ chunks = << >>
    /\ idx = 1
    /\ restructured_content = << >>
    /\ outcomes = << >>
    /\ result = None
    /\ sent = {}
    /\ absent_before = {}
    /\ absent = {}
    /\ visited_files = {}
    /\ visited_pages = {}
    /\ partial = FALSE
    /\ terminal = {}
    /\ writes = {}
    /\ GptIdle
    /\ ExtractIdle
    /\ ChunkerIdle

\* __init__: a new ContentProcessor loads the ledger file
load_processed_files ==
    {PathBasename(ledger_file[i]) : i \in DOMAIN ledger_file}

BeginRun ==
    /\ pc = "start"
    /\ processed_files' = load_processed_files
    /\ root' = 1
    /\ file_idx' = 1
    /\ pc' = "walk"
    /\ UNCHANGED << run, extracted, disk, ledger_file, pages_content,
                    page_idx, chunks, idx, restructured_content, outcomes,
                    result, sent, absent_before, absent, visited_files,
                    visited_pages, writes, chunkerVars, gptVars, extractVars,
                    partial, terminal >>

\* a run_pipeline that goes to the second root before the first is walked
EndDirectoryEarly ==
    /\ pc = "walk"
    /\ root = 1
    /\ root' = 2 /\ file_idx' = 1 /\ pc' = "walk"
    /\ UNCHANGED << run, extracted, disk, ledger_file, processed_files,
                    pages_content, page_idx, chunks, idx,
                    restructured_content, outcomes, result, sent,
                    absent_before, absent, visited_files, visited_pages,
                    writes, chunkerVars, gptVars, extractVars,
                    partial, terminal >>

\* the file loop is over: run_pipeline goes to the second root, or returns
EndDirectory ==
    /\ pc = "walk"
    /\ file_idx > Len(Roots[root])
    /\ IF root = 1
       THEN root' = 2 /\ file_idx' = 1 /\ pc' = "walk"
       ELSE pc' = "done" /\ UNCHANGED << root, file_idx >>
    /\ UNCHANGED << run, extracted, disk, ledger_file, processed_files,
                    pages_content, page_idx, chunks, idx,
                    restructured_content, outcomes, result, sent,
                    absent_before, absent, visited_files, visited_pages,
                    writes, chunkerVars, gptVars, extractVars,
                    partial, terminal >>

\* a file whose extension is not .pdf, .doc or .docx
SkipFile ==
    /\ pc = "walk"
    /\ file_idx <= Len(Roots[root])
    /\ ~Eligible(CurrentFile)
    /\ file_idx' = file_idx + 1
    /\ UNCHANGED << pc, run, extracted, disk, ledger_file, processed_files,
                    root, pages_content, page_idx, chunks, idx,
                    restructured_content, outcomes, result, sent,
                    absent_before, absent, visited_files, visited_pages,
                    writes, chunkerVars, gptVars, extractVars,
                    partial, terminal >>

\* an eligible file: extraction; no page, next file
ExtractFile ==
    /\ pc = "walk"
    /\ file_idx <= Len(Roots[root])
    /\ Eligible(CurrentFile)
    /\ visited_files' = visited_files \cup {CurrentFile}
    /\ pages_content' = extracted[CurrentFile]
    /\ IF extracted[CurrentFile] = << >>
       THEN file_idx' = file_idx + 1 /\ pc' = "walk" /\ UNCHANGED page_idx
       ELSE page_idx' = 1 /\ pc' = "page" /\ UNCHANGED file_idx
    /\ terminal' = IF extracted[CurrentFile] = << >>
                   THEN terminal \cup {End(CurrentFile, "Skipped")}
                   ELSE terminal
    /\ UNCHANGED << run, extracted, disk, ledger_file, processed_files,
                    root, chunks, idx, restructured_content, outcomes,
                    result, sent, absent_before, absent, visited_pages,
                    writes, chunkerVars, gptVars, extractVars,
                    partial >>

\* the page loop of the file is over
EndFile ==
    /\ pc = "page"
    /\ page_idx > Len(pages_content)
    /\ file_idx' = file_idx + 1
    /\ pc' = "walk"
    /\ pages_content' = << >>
    /\ page_idx' = 1
    /\ terminal' = terminal \cup {End(CurrentFile, "Done")}
    /\ UNCHANGED << run, extracted, disk, ledger_file, processed_files,
                    root, chunks, idx,
                    restructured_content, outcomes, result, sent,
                    absent_before, absent, visited_files, visited_pages,
                    writes, chunkerVars, gptVars, extractVars,
                    partial >>

\* "if not page_data.get('text'): continue"
SkipEmptyPage ==
    /\ pc = "page"
    /\ page_idx <= Len(pages_content)
    /\ page_data.text = << >>
    /\ visited_pages' = visited_pages \cup {CurrentPage}
    /\ page_idx' = page_idx + 1
    /\ terminal' = terminal \cup {End(CurrentPage, "Skipped")}
    /\ UNCHANGED << pc, run, extracted, disk, ledger_file, processed_files,
                    root, file_idx, pages_content, chunks, idx,
                    restructured_content, outcomes, result, sent,
                    absent_before, absent, visited_files,
                    writes, chunkerVars, gptVars, extractVars,
                    partial >>

\* a page loop without its skip check
AlreadyDoneNever(path) == FALSE

\* the skip check of the page loop
AlreadyDone(path) == Exists(path)

\* "if os.path.exists(save_path): ... continue"
SkipPage ==
    /\ pc = "page"
    /\ page_idx <= Len(pages_content)
    /\ page_data.text # << >>
    /\ AlreadyDone(save_path)
    /\ visited_pages' = visited_pages \cup {CurrentPage}
    /\ page_idx' = page_idx + 1
    /\ terminal' = terminal \cup {End(CurrentPage, "Skipped")}
    /\ UNCHANGED << pc, run, extracted, disk, ledger_file, processed_files,
                    root, file_idx, pages_content, chunks, idx,
                    restructured_content, outcomes, result, sent,
                    absent_before, absent, visited_files,
                    writes, chunkerVars, gptVars, extractVars,
                    partial >>

\* the page is sent: send_to_gpt is entered and builds its chunks
StartPage ==
    /\ pc = "page"
    /\ page_idx <= Len(pages_content)
    /\ page_data.text # << >>
    /\ ~AlreadyDone(save_path)
    /\ visited_pages' = visited_pages \cup {CurrentPage}
    /\ chunks' = BuildChunks(Context(page_data), MaxChunkTokens)
    /\ idx' = 1
    /\ restructured_content' = << >>
    /\ outcomes' = << >>
    /\ result' = "Pending"
    /\ pc' = "send"
    /\ UNCHANGED << run, extracted, disk, ledger_file, processed_files,
                    root, file_idx, pages_content, page_idx, sent,
                    absent_before, absent, visited_files,
                    writes, chunkerVars, gptVars, extractVars,
                    partial, terminal >>

----------------------------------------------------------------------------
(* send_to_gpt: one request per chunk *)

Contents == {<< >>, <<"x">>}

\* what session.post and the reading of the response can come to
FailureKinds == {"http_error", "network_error", "missing_key",
                 "empty_choices", "null_content", "invalid_json"}

Responses == [kind : {"ok"}, content : Contents]
             \cup [kind : FailureKinds, content : {<< >>}]

\* the exception a response makes the try block raise ("none": no exception).
\* response.json() on an invalid body raises requests' JSONDecodeError (a
\* RequestException) or a plain ValueError, depending on the requests version.
Raises(resp) ==
    CASE resp.kind = "ok"            -> {"none"}
      [] resp.kind = "http_error"    -> {"HTTPError"}
      [] resp.kind = "network_error" -> {"RequestException"}
      [] resp.kind = "missing_key"   -> {"KeyError"}
      [] resp.kind = "empty_choices" -> {"IndexError"}
      [] resp.kind = "null_content"  -> {"TypeError"}
      [] resp.kind = "invalid_json"  -> {"RequestException", "ValueError"}

\* the except clauses of the chunk loop
Caught(exc) == exc \in {"HTTPError", "RequestException", "KeyError"}

\* an accumulator that puts the new response in front
AccumulateInFront(acc, gpt_content) == gpt_content \o NL \o acc

\* an accumulator that adds no line break
AccumulateNoBreak(acc, gpt_content) == acc \o gpt_content

\* "restructured_content += gpt_content + '\n'"
Accumulate(acc, gpt_content) == acc \o gpt_content \o NL

\* a send_to_gpt that returns nothing as soon as one chunk failed
ReturnValueAllOrNothing(acc) ==
    IF acc # << >> /\ \A i \in DOMAIN outcomes : outcomes[i] # Failed
    THEN acc ELSE None

\* "return restructured_content if restructured_content else None"
ReturnValue(acc) == IF acc # << >> THEN acc ELSE None

\* truth value of a returned result ("if not restructured_content")
Truthy(v) == v # None /\ v # << >>

\* the locals of a page, and of a file, once it is left
LeavePage ==
    /\ chunks' = << >>
    /\ idx' = 1
    /\ restructured_content' = << >>
    /\ outcomes' = << >>
    /\ result' = None

LeaveFile ==
    /\ pages_content' = << >>
    /\ page_idx' = 1

\* a file loop without its except clause: the exception ends the pipeline
FileExceptMissing ==
    /\ pc' = "done"
    /\ UNCHANGED << file_idx, terminal >>
    /\ LeaveFile

\* "except Exception as e: logging.error(...)" of the file loop: the walk
\* goes on with the next file
FileExcept ==
    /\ file_idx' = file_idx + 1
    /\ pc' = "walk"
    /\ terminal' = terminal \cup {End(CurrentPage, "Failed"),
                                  End(CurrentFile, "Failed")}
    /\ LeaveFile

SendChunk ==
    /\ pc = "send"
    /\ idx <= Len(chunks)
    /\ sent' = sent \cup {CurrentPage}
    /\ \E resp \in Responses : \E exc \in Raises(resp) :
         IF exc = "none"
         THEN /\ restructured_content' =
                    Accumulate(restructured_content, resp.content)
              /\ outcomes' = Append(outcomes, resp.content)
              /\ idx' = idx + 1
              /\ UNCHANGED << pc, file_idx, result, chunks, pages_content,
                              page_idx, terminal >>
         ELSE IF Caught(exc)
         THEN /\ outcomes' = Append(outcomes, Failed)
              /\ idx' = idx + 1
              /\ UNCHANGED restructured_content
              /\ UNCHANGED << pc, file_idx, result, chunks, pages_content,
                              page_idx, terminal >>
         ELSE \* not caught in send_to_gpt: the file's "except Exception"
              /\ LeavePage
              /\ FileExcept
    /\ UNCHANGED << run, extracted, disk, ledger_file, processed_files,
                    root, absent_before, absent, visited_files,
                    visited_pages, writes, chunkerVars, gptVars, extractVars,
                    partial >>

\* send_to_gpt returns
ReturnFromGpt ==
    /\ pc = "send"
    /\ idx > Len(chunks)
    /\ result' = ReturnValue(restructured_content)
    /\ pc' = "returned"
    /\ UNCHANGED << run, extracted, disk, ledger_file, processed_files,
                    root, file_idx, pages_content, page_idx, chunks, idx,
                    restructured_content, outcomes, sent, absent_before,
                    absent, visited_files, visited_pages,
                    writes, chunkerVars, gptVars, extractVars,
                    partial, terminal >>

\* "restructured_content = self.send_to_gpt(context)
\*  if not restructured_content: ... continue"
AfterGpt ==
    /\ pc = "returned"
    /\ chunks' = << >>
    /\ idx' = 1
    /\ restructured_content' = << >>
    /\ outcomes' = << >>
    /\ result' = None
    /\ IF Truthy(result)
       THEN pc' = "write_restructured" /\ UNCHANGED << page_idx, absent >>
       ELSE /\ pc' = "page"
            /\ page_idx' = page_idx + 1
            /\ absent' = absent \cup {CurrentPage}
    /\ partial' = (Truthy(result) /\ Partial(outcomes))
    /\ terminal' = IF Truthy(result) THEN terminal
                   ELSE terminal \cup {End(CurrentPage, "Failed")}
    /\ UNCHANGED << run, extracted, disk, ledger_file, processed_files,
                    root, file_idx, pages_content, sent, absent_before,
                    visited_files, visited_pages,
                    writes, chunkerVars, gptVars, extractVars >>

----------------------------------------------------------------------------
(* Persistence of a page *)

\* what "with open(path, 'w') ... f.write(...)" can come to
WriteOutcomes == {"ok", "IOError", "Error"}

\* a writing of path whose failure is not noticed: the page goes on
WriteFileUnchecked(path, next_pc) ==
    /\ \E opened \in BOOLEAN :
         /\ disk' = IF opened THEN disk \cup {path} ELSE disk
         /\ writes' = IF opened THEN writes \cup {path} ELSE writes
    /\ pc' = next_pc
    /\ UNCHANGED << page_idx, file_idx, pages_content, partial, terminal >>

\* The writing of path: the page goes on ("ok"), the page is given up
\* ("except IOError", the file created or not), or an error that is no
\* IOError (raised by f.write, once open has created the file) leaves the
\* page's try block for the file's "except Exception".
WriteFile(path, next_pc) ==
    \E o \in WriteOutcomes :
        CASE o = "ok" ->
               /\ disk' = disk \cup {path}
               /\ writes' = writes \cup {path}
               /\ pc' = next_pc
               /\ UNCHANGED << page_idx, file_idx, pages_content, partial,
                               terminal >>
          [] o = "IOError" ->
               /\ \E opened \in BOOLEAN :
                    /\ disk' = IF opened THEN disk \cup {path} ELSE disk
                    /\ writes' = IF opened THEN writes \cup {path}
                                 ELSE writes
               /\ pc' = "page"
               /\ page_idx' = page_idx + 1
               /\ partial' = FALSE
               /\ terminal' = terminal \cup {End(CurrentPage, "Failed")}
               /\ UNCHANGED << file_idx, pages_content >>
          [] o = "Error" ->
               /\ disk' = disk \cup {path}
               /\ writes' = writes \cup {path}
               /\ partial' = FALSE
               /\ FileExcept

WriteRestructured ==
    /\ pc = "write_restructured"
    /\ WriteFile(save_path, "write_raw")
    /\ UNCHANGED << run, extracted, ledger_file, processed_files, root,
                    chunks, idx, restructured_content, outcomes, result,
                    sent, absent_before, absent, visited_files,
                    visited_pages, chunkerVars, gptVars, extractVars >>

\* a page body that records the page without writing its raw artifact
WriteRawSkipped ==
    /\ pc = "write_raw"
    /\ pc' = "record"
    /\ UNCHANGED << run, extracted, disk, ledger_file, processed_files, root,
                    file_idx, pages_content, page_idx, chunks, idx,
                    restructured_content, outcomes, result, sent,
                    absent_before, absent, visited_files, visited_pages,
                    partial, terminal, writes, chunkerVars, gptVars,
                    extractVars >>

WriteRaw ==
    /\ pc = "write_raw"
    /\ WriteFile(raw_save_path, "record")
    /\ UNCHANGED << run, extracted, ledger_file, processed_files, root,
                    chunks, idx, restructured_content, outcomes, result,
                    sent, absent_before, absent, visited_files,
                    visited_pages, chunkerVars, gptVars, extractVars >>

\* a save_processed_file that opens the ledger file with mode 'w'
save_processed_file_rewrite(filename, ok) ==
    IF ok
    THEN /\ ledger_file' = << filename >>
         /\ processed_files' = processed_files \cup {PathBasename(filename)}
    ELSE UNCHANGED << ledger_file, processed_files >>

\* save_processed_file(save_path): the append and the set, or neither
save_processed_file(filename, ok) ==
    IF ok
    THEN /\ ledger_file' = Append(ledger_file, filename)
         /\ processed_files' = processed_files \cup {PathBasename(filename)}
    ELSE UNCHANGED << ledger_file, processed_files >>

RecordProcessed ==
    /\ pc = "record"
    /\ \E ok \in BOOLEAN :
         /\ save_processed_file(save_path, ok)
         /\ terminal' = terminal \cup
                {End(CurrentPage, IF ok THEN "Done" ELSE "Failed")}
    /\ page_idx' = page_idx + 1
    /\ pc' = "page"
    /\ partial' = FALSE
    /\ UNCHANGED << run, extracted, disk, root, file_idx, pages_content,
                    chunks, idx, restructured_content, outcomes, result, sent,
                    absent_before, absent, visited_files, visited_pages,
                    writes, chunkerVars, gptVars, extractVars >>

\* the program is executed again over the same inputs and base_dir
Rerun ==
    /\ pc = "done"
    /\ run < MaxRuns
    /\ run' = run + 1
    /\ pc' = "start"
    /\ processed_files' = {}
    /\ root' = 1
    /\ file_idx' = 1
    /\ pages_content' = << >>
    /\ page_idx' = 1
    /\ chunks' = << >>
    /\ idx' = 1
    /\ restructured_content' = << >>
    /\ outcomes' = << >>
    /\ result' = None
    /\ sent' = {}
    /\ absent_before' = absent
    /\ absent' = {}
    /\ visited_files' = {}
    /\ visited_pages' = {}
    /\ partial' = FALSE
    /\ terminal' = {}
    /\ writes' = {}
    /\ UNCHANGED << extracted, disk, ledger_file,
                    chunkerVars, gptVars, extractVars >>

Next ==
    \/ BeginRun
    \/ EndDirectory
    \/ SkipFile
    \/ ExtractFile
    \/ EndFile
    \/ SkipEmptyPage
    \/ SkipPage
    \/ StartPage
    \/ SendChunk
    \/ ReturnFromGpt
    \/ AfterGpt
    \/ WriteRestructured
    \/ WriteRaw
    \/ RecordProcessed
    \/ Rerun

Spec == Init /\ [][Next]_vars

----------------------------------------------------------------------------
(* The chunker of send_to_gpt on its own, over any text and any budget *)

Texts == UNION {[1..n -> Chars] : n \in 0..MaxTextLen}

\* the pipeline not running
PipelineIdle ==
    /\ pc = "off"
    /\ run = 1
    /\ extracted = << >>
    /\ disk = {}
    /\ ledger_file = << >>
    /\ processed_files = {}
    /\ root = 1
    /\ file_idx = 1
    /\ pages_content = << >>
    /\ page_idx = 1
    /\ chunks = << >>
    /\ idx = 1
    /\ restructured_content = << >>
    /\ outcomes = << >>
    /\ result = None
    /\ sent = {}
    /\ absent_before = {}
    /\ absent = {}
    /\ visited_files = {}
    /\ visited_pages = {}
    /\ partial = FALSE
    /\ terminal = {}
    /\ writes = {}

InitChunk ==
    /\ PipelineIdle
    /\ GptIdle
    /\ ExtractIdle
    /\ cText \in Texts
    /\ cMax \in 1..MaxTok
    /\ cTokens = << >>
    /\ cWindows = << >>
    /\ cChunks = << >>
    /\ cPc = "input"

\* lines 219-224 of send_to_gpt
ChunkText ==
    /\ cPc = "input"
    /\ cTokens' = Encode(cText)
    /\ cWindows' = TokenWindows(Encode(cText), cMax)
    /\ cChunks' = BuildChunks(cText, cMax)
    /\ cPc' = "chunked"
    /\ UNCHANGED << cText, cMax, pipelineVars, gptVars, extractVars >>

NextChunk == ChunkText

SpecChunk == InitChunk /\ [][NextChunk]_vars

----------------------------------------------------------------------------
(* send_to_gpt on its own, with the retries of its session                 *)
(* (create_requests_session): each chunk's request may be issued several   *)
(* times by the transport before send_to_gpt sees a response or an         *)
(* exception.                                                              *)

RetryTotal == 5                               \* Retry(total=5, ...)
StatusForcelist == {429, 500, 502, 503, 504}  \* status_forcelist

\* what comes back to one request on the wire: a response of Responses
\* with its HTTP status (0: no response, a connection error or a timeout)
WireResponses ==
    {w \in [resp : Responses, status : {0, 200, 400} \cup StatusForcelist] :
        CASE w.resp.kind = "network_error" -> w.status = 0
          [] w.resp.kind = "http_error"    -> w.status \notin {0, 200}
          [] OTHER                         -> w.status = 200}

\* the outcomes the Retry object counts against its total: a status of the
\* forcelist (POST is an allowed method), a connection error or a timeout
Retried(w) == w.status \in StatusForcelist \/ w.resp.kind = "network_error"

\* a Retry that allows one request more than total + 1
CanRetryOnceMore(attempts) == attempts - 1 <= RetryTotal

\* after this many requests for the chunk, is another one allowed:
\* "total" counts the retries, the first request is not one
CanRetry(attempts) == attempts - 1 < RetryTotal

\* what the try block of send_to_gpt raises once the transport has given its
\* last word: exhausted retries surface as requests' RetryError or
\* ConnectionError, both RequestException
FinalRaises(w) ==
    IF Retried(w) THEN {"RequestException"} ELSE Raises(w.resp)

\* the contexts send_to_gpt is called with
GptInputs ==
    UNION { UNION { {Context(x[i]) : i \in {j \in DOMAIN x :
                                                x[j].text # << >>}} :
                    x \in Extractions(f) } :
            f \in {g \in AllFiles : Eligible(g)} }

InitGpt ==
    /\ PipelineIdle
    /\ ChunkerIdle
    /\ ExtractIdle
    /\ \E content \in GptInputs :
         gChunks = BuildChunks(content, MaxChunkTokens)
    /\ gIdx = 1
    /\ gAttempts = 0
    /\ gResponse = NoResponse
    /\ gContent = << >>
    /\ gOutcomes = << >>
    /\ gPc = "send"

\* "self.session.post(...)": a request for the chunk goes on the wire
PostRequest ==
    /\ gPc = "send"
    /\ gIdx <= Len(gChunks)
    /\ gAttempts' = gAttempts + 1
    /\ gResponse' \in WireResponses
    /\ gPc' = "await"
    /\ UNCHANGED << gChunks, gIdx, gContent, gOutcomes, pipelineVars,
                    chunkerVars, extractVars >>

\* the transport retries the request by itself
RetryRequest ==
    /\ gPc = "await"
    /\ Retried(gResponse)
    /\ CanRetry(gAttempts)
    /\ gResponse' = NoResponse
    /\ gPc' = "send"
    /\ UNCHANGED << gChunks, gIdx, gAttempts, gContent, gOutcomes,
                    pipelineVars, chunkerVars, extractVars >>

\* the rest of the try block and its except clauses
HandleResponse ==
    /\ gPc = "await"
    /\ ~(Retried(gResponse) /\ CanRetry(gAttempts))
    /\ gResponse' = NoResponse
    /\ gAttempts' = 0
    /\ \E exc \in FinalRaises(gResponse) :
         IF exc = "none"
         THEN /\ gContent' = Accumulate(gContent, gResponse.resp.content)
              /\ gOutcomes' = Append(gOutcomes, gResponse.resp.content)
              /\ gIdx' = gIdx + 1
              /\ gPc' = "send"
         ELSE IF Caught(exc)
         THEN /\ gOutcomes' = Append(gOutcomes, Failed)
              /\ gIdx' = gIdx + 1
              /\ gPc' = "send"
              /\ UNCHANGED gContent
         ELSE \* the exception leaves send_to_gpt
              /\ gPc' = "raised"
              /\ UNCHANGED << gContent, gOutcomes, gIdx >>
    /\ UNCHANGED << gChunks, pipelineVars, chunkerVars, extractVars >>

\* the chunk loop is over: "return restructured_content if ... else None"
ReturnGpt ==
    /\ gPc = "send"
    /\ gIdx > Len(gChunks)
    /\ gPc' = "returned"
    /\ gContent' = ReturnValue(gContent)
    /\ UNCHANGED << gChunks, gIdx, gAttempts, gResponse, gOutcomes,
                    pipelineVars, chunkerVars, extractVars >>

NextGpt ==
    \/ PostRequest
    \/ RetryRequest
    \/ HandleResponse
    \/ ReturnGpt

SpecGpt == InitGpt /\ [][NextGpt]_vars

----------------------------------------------------------------------------
(* The extractors on their own: extract_text_from_pdf with its OCR         *)
(* fallback, and extract_text_from_docx.                                   *)

SeqsUpTo(S, n) == UNION {[1..k -> S] : k \in 0..n}

\* str.strip(): leading and trailing whitespace removed
RECURSIVE LStrip(_)
LStrip(text) ==
    IF text # << >> /\ Head(text) = " " THEN LStrip(Tail(text)) ELSE text

RECURSIVE RStrip(_)
RStrip(text) ==
    IF text # << >> /\ text[Len(text)] = " "
    THEN RStrip(SubSeq(text, 1, Len(text) - 1)) ELSE text

Strip(text) == RStrip(LStrip(text))

PageTexts == {<< >>, <<" ">>, <<"a">>}

\* what page.extract_text() comes to for a page: a string, None, or an
\* exception (reader.pages[n] and extract_text can raise either kind)
NativeResults ==
    [kind : {"str"}, text : PageTexts]
    \cup [kind : {"None", "PdfReadError", "Exception"}, text : {<< >>}]

\* what the OCR of a page comes to, were it run: the string of
\* image_to_string, no image from convert_from_path, or an exception
OcrResults ==
    [kind : {"str"}, text : PageTexts]
    \cup [kind : {"noimage", "Exception"}, text : {<< >>}]

PdfFiles ==
    [kind : {"pdf"}, openable : BOOLEAN,
     pages : SeqsUpTo([native : NativeResults, ocr : OcrResults],
                      MaxPdfPages),
     elements : {<< >>}]

\* the body elements of a DOCX by tag; "bad" is one whose reading raises
DocxFiles ==
    [kind : {"docx"}, openable : BOOLEAN, pages : {<< >>},
     elements : SeqsUpTo({"p", "tbl", "sectPr", "bad"}, MaxDocxElements)]

InitExtract ==
    /\ PipelineIdle
    /\ ChunkerIdle
    /\ GptIdle
    /\ xFile \in PdfFiles \cup DocxFiles
    /\ xPage = 0
    /\ xPages = << >>
    /\ xOcr = {}
    /\ xPc = "open"

\* extract_text_with_ocr: the OCR text, "" without an image or on any
\* exception
extract_text_with_ocr(ocr) == IF ocr.kind = "str" THEN ocr.text ELSE << >>

\* "page.extract_text() or ''"
OrEmpty(native) == IF native.kind = "str" THEN native.text ELSE << >>

\* an OCR fallback run for every page
NeedsOcrAlways(text) == TRUE

\* "if not text.strip():"
NeedsOcr(text) == Strip(text) = << >>

\* formatted_text of a page: the text between its markers
FormatPage(text) == <<"#">> \o text

\* an extractor with "except PyPDF2.errors.PdfReadError" alone
PdfCatchesReadErrorOnly(exc) == exc = "PdfReadError"

\* "except PyPDF2.errors.PdfReadError ... except Exception" of the extractor
PdfCatches(exc) == exc \in {"PdfReadError", "Exception"}

\* "with open(file_path, 'rb') as f: reader = PyPDF2.PdfReader(f)
\*  num_pages = len(reader.pages)", or Document(file_path)
OpenFile ==
    /\ xPc = "open"
    /\ xPc' = IF xFile.openable
              THEN (IF xFile.kind = "pdf" THEN "pdf_page" ELSE "docx_element")
              ELSE (IF xFile.kind = "docx" \/ PdfCatches("Exception")
                    THEN "returned" ELSE "raised")
    /\ UNCHANGED << xFile, xPage, xPages, xOcr, pipelineVars, chunkerVars,
                    gptVars >>

\* one turn of "for page_number in range(num_pages)"
ReadPdfPage ==
    /\ xPc = "pdf_page"
    /\ xPage < Len(xFile.pages)
    /\ LET n == xPage + 1
           native == xFile.pages[n].native
           text == OrEmpty(native)
           final == IF NeedsOcr(text)
                    THEN extract_text_with_ocr(xFile.pages[n].ocr)
                    ELSE text
       IN  IF native.kind \in {"PdfReadError", "Exception"}
           THEN /\ xPc' = IF PdfCatches(native.kind) THEN "returned"
                          ELSE "raised"
                /\ UNCHANGED << xPage, xPages, xOcr >>
           ELSE /\ xOcr' = IF NeedsOcr(text) THEN xOcr \cup {n} ELSE xOcr
                /\ xPages' = IF Strip(final) # << >>
                              THEN Append(xPages, Page(n, FormatPage(final)))
                              ELSE xPages
                /\ xPage' = n
                /\ UNCHANGED xPc
    /\ UNCHANGED << xFile, pipelineVars, chunkerVars, gptVars >>

\* the page loop is over: "return pages_content"
ReturnPdf ==
    /\ xPc = "pdf_page"
    /\ xPage = Len(xFile.pages)
    /\ xPc' = "returned"
    /\ UNCHANGED << xFile, xPage, xPages, xOcr, pipelineVars, chunkerVars,
                    gptVars >>

\* one turn of "for element in doc.element.body"; an exception leaves
\* pages_content empty, the page being appended after the loop
ReadDocxElement ==
    /\ xPc = "docx_element"
    /\ xPage < Len(xFile.elements)
    /\ IF xFile.elements[xPage + 1] = "bad"
       THEN xPc' = "returned" /\ UNCHANGED xPage
       ELSE xPage' = xPage + 1 /\ UNCHANGED xPc
    /\ UNCHANGED << xFile, xPages, xOcr, pipelineVars, chunkerVars,
                    gptVars >>

\* current_text of a DOCX: a line per paragraph, the table lines per table
RECURSIVE DocxText(_)
DocxText(elements) ==
    IF elements = << >> THEN << >>
    ELSE (CASE Head(elements) = "p"   -> <<"b">>
            [] Head(elements) = "tbl" -> <<"[", "c", "]">>
            [] OTHER                  -> << >>)
         \o DocxText(Tail(elements))

\* the element loop is over: the single page, numbered 1, whatever its text
ReturnDocx ==
    /\ xPc = "docx_element"
    /\ xPage = Len(xFile.elements)
    /\ xPages' = Append(xPages, Page(1, DocxText(xFile.elements)))
    /\ xPc' = "returned"
    /\ UNCHANGED << xFile, xPage, xOcr, pipelineVars, chunkerVars,
                    gptVars >>

NextExtract ==
    \/ OpenFile
    \/ ReadPdfPage
    \/ ReturnPdf
    \/ ReadDocxElement
    \/ ReturnDocx

SpecExtract == InitExtract /\ [][NextExtract]_vars

----------------------------------------------------------------------------
(* Properties *)

EligibleFiles == {f \in AllFiles : Eligible(f)}

\* the pages with text that the extractors return over the two roots
PagesWithText ==
    UNION { {PageId(f, extracted[f][i].page) :
                i \in {j \in DOMAIN extracted[f] :
                          extracted[f][j].text # << >>}} :
            f \in EligibleFiles }

\* the pages the extractors return over the two roots
AllPages ==
    UNION { {PageId(f, extracted[f][i].page) : i \in DOMAIN extracted[f]} :
            f \in EligibleFiles }

AtPage == pc = "page" /\ page_idx <= Len(pages_content)

InLedger(path) == PathBasename(path) \in processed_files

\* the in-memory ledger holds the output path of every page with text
LedgerPopulated ==
    \A p \in PagesWithText : InLedger(SavePath(p.file, p.page))

NoDuplicate(lines) ==
    \A i, j \in DOMAIN lines : lines[i] = lines[j] => i = j

\* C1: a page with text whose output path is in the ledger is skipped: the
\* page loop goes to the next page, no request is issued for it and no
\* artifact is written, whether or not its restructured artifact is on disk.
C1_LedgerSkip ==
    [][ (AtPage /\ page_data.text # << >> /\ InLedger(save_path))
        => /\ pc' = "page"
           /\ page_idx' = page_idx + 1
           /\ disk' = disk
           /\ sent' = sent ]_vars

\* C2: in a second execution that starts with the output path of every page
\* in the ledger, no request is issued, and the ledger file ends without an
\* output path recorded twice.
C2_IdempotentRerun ==
    /\ (run >= 2 /\ sent = {} /\ LedgerPopulated) => pc # "send"
    /\ (run >= 2 /\ pc = "done" /\ LedgerPopulated)
          => (sent = {} /\ NoDuplicate(ledger_file))

\* C3: when send_to_gpt returns an absent result, nothing is written or
\* recorded for the page and the page loop goes on; and the pages whose
\* result was absent in one execution are sent again in the next one.
C3_AbsentRetried ==
    /\ [][ (pc = "returned" /\ ~Truthy(result))
            => /\ disk' = disk
               /\ ledger_file' = ledger_file
               /\ processed_files' = processed_files
               /\ pc' = "page"
               /\ page_idx' = page_idx + 1 ]_vars
    /\ [](pc = "done" => absent_before \subseteq sent)

\* C4: whatever the response to a chunk request, the chunk loop goes on
\* with the next chunk of the same page: send_to_gpt does not raise.
C4_ChunkFailureSkipsChunk ==
    [][ (pc = "send" /\ idx <= Len(chunks))
        => /\ pc' = "send"
           /\ idx' = idx + 1
           /\ chunks' = chunks ]_vars

\* C5: when the pipeline is over, every page of every file has been reached
\* by the page loop, whatever failed on the pages before it.
C5_PageFailureKeepsFile ==
    pc = "done" => AllPages \subseteq visited_pages

\* C6: when the pipeline is over, every eligible file of both roots has
\* been reached by the file loop, whatever was raised on the files before.
C6_FileFailureKeepsWalk ==
    pc = "done" => visited_files = EligibleFiles

\* a file of the PDF root was left on an exception (one of its pages was
\* never reached) and the pipeline is over with every file reached
C6_Witness ==
    /\ pc = "done"
    /\ \E p \in AllPages : p.file.dir = "PDF" /\ p \notin visited_pages
    /\ DocDirectory[1] \in visited_files
    /\ PdfDirectory[3] \in visited_files

\* C7: the token windows put end to end are the token sequence of the text,
\* and the chunks (the decoded windows) put end to end are the round trip
\* of the text through the tokenizer.
C7_LosslessChunking ==
    cPc = "chunked"
        => /\ Flatten(cWindows) = cTokens
           /\ Flatten(cChunks) = Decode(Encode(cText))

\* C8: the windows are the successive runs of max_tokens tokens of the token
\* sequence, the last one possibly shorter; there are ceil(n / max_tokens)
\* of them, as many as chunks, and none for a text of zero tokens.
C8_ChunkWindows ==
    cPc = "chunked"
        => LET n == Len(cTokens)
               count == (n + cMax - 1) \div cMax
           IN  /\ Len(cWindows) = count
               /\ Len(cChunks) = count
               /\ \A k \in 1..count :
                    /\ Len(cWindows[k]) >= 1
                    /\ Len(cWindows[k]) <= cMax
                    /\ k < count => Len(cWindows[k]) = cMax
                    /\ \A j \in 1..Len(cWindows[k]) :
                         cWindows[k][j] = cTokens[(k - 1) * cMax + j]
               /\ n = 0 => cChunks = << >>

\* a text of several windows whose last window is short
C8_Witness ==
    /\ cPc = "chunked"
    /\ Len(cWindows) >= 2
    /\ Len(cWindows[Len(cWindows)]) < cMax

\* the responses of the chunks that succeeded, in chunk order, each followed
\* by a line break
RECURSIVE Contributions(_)
Contributions(outs) ==
    IF outs = << >> THEN << >>
    ELSE (IF Head(outs) = Failed THEN << >> ELSE Head(outs) \o NL)
         \o Contributions(Tail(outs))

Succeeded(outs) == {i \in DOMAIN outs : outs[i] # Failed}

\* C9: a text returned by send_to_gpt is the responses of the chunks that
\* succeeded, in chunk order, each followed by one line break; every chunk
\* has been requested once.
C9_ConcatenationInOrder ==
    pc = "returned"
        => /\ Len(outcomes) = Len(chunks)
           /\ result # None => result = Contributions(outcomes)

\* a returned text with a failed chunk before a chunk that succeeded
C9_Witness ==
    /\ pc = "returned"
    /\ result # None
    /\ Len(outcomes) >= 2
    /\ outcomes[1] = Failed
    /\ outcomes[2] = <<"x">>

\* C10: send_to_gpt returns None exactly when no chunk succeeded; a result
\* with a chunk that succeeded, even on an empty response, is present and
\* the page goes on to be written.
C10_AbsentIffAllFailed ==
    /\ [](pc = "returned" => (result = None <=> Succeeded(outcomes) = {}))
    /\ [][ (pc = "returned" /\ Succeeded(outcomes) # {})
            => pc' = "write_restructured" ]_vars

\* a call returns with one chunk failed and one empty response
C10_Witness ==
    /\ pc = "returned"
    /\ Len(outcomes) = 2
    /\ Succeeded(outcomes) # {}
    /\ \A i \in Succeeded(outcomes) : outcomes[i] = << >>
    /\ result = NL

Persisting == pc \in {"write_restructured", "write_raw", "record"}

\* C11 as the specification states it: a page of which some chunks failed
\* and some did not is finished with its restructured artifact on disk and
\* its output path in the ledger.
C11_PartialAlwaysRecorded ==
    [][ (partial /\ Persisting /\ ~Persisting')
        => /\ save_path \in disk'
           /\ \E i \in DOMAIN ledger_file' : ledger_file'[i] = save_path
           /\ PathBasename(save_path) \in processed_files' ]_vars

\* C11: a page of which some chunks failed and some did not is handled as a
\* page whose chunks all succeeded: the orchestrator goes on to write its
\* partial restructured artifact, then the raw artifact, then appends the
\* output path to the ledger, each step unless the one before failed; once
\* the restructured artifact is on disk it stays there and no later visit of
\* the page issues a request for it.
C11_PartialPersisted ==
    /\ [][ (pc = "returned" /\ Partial(outcomes))
            => (pc' = "write_restructured" /\ partial') ]_vars
    /\ []((partial /\ pc \in {"write_raw", "record"}) => save_path \in disk)
    /\ []((partial /\ pc = "record") => raw_save_path \in disk)
    /\ [][ (partial /\ pc = "record" /\ ledger_file' # ledger_file)
            => /\ ledger_file' = Append(ledger_file, save_path)
               /\ PathBasename(save_path) \in processed_files' ]_vars
    /\ [][ disk \subseteq disk' ]_vars
    /\ [][ (AtPage /\ page_data.text # << >> /\ Exists(save_path))
            => (sent' = sent /\ pc' = "page"
                /\ page_idx' = page_idx + 1) ]_vars

C11_Witness ==
    /\ partial
    /\ pc = "record"
    /\ {save_path, raw_save_path} \subseteq disk

\* C12: a request answered by a status of the forcelist is issued again by
\* the transport, at most RetryTotal times (RetryTotal + 1 requests for one
\* chunk); while retries remain the chunk is not declared failed; once they
\* are exhausted the chunk is skipped as failed and the loop goes on with
\* the next chunk, no exception leaving send_to_gpt.
C12_TransportRetries ==
    /\ [](gAttempts <= RetryTotal + 1)
    /\ [][ (gPc = "await" /\ gResponse.status \in StatusForcelist
                /\ gAttempts <= RetryTotal)
            => (gPc' = "send" /\ gIdx' = gIdx /\ gAttempts' = gAttempts
                /\ gOutcomes' = gOutcomes /\ gContent' = gContent) ]_vars
    /\ [][ (gPc = "await" /\ gResponse.status \in StatusForcelist
                /\ gAttempts = RetryTotal + 1)
            => (gPc' = "send" /\ gIdx' = gIdx + 1
                /\ gOutcomes' = Append(gOutcomes, Failed)
                /\ gContent' = gContent) ]_vars

C12_Witness ==
    /\ gPc = "await"
    /\ gIdx = 2
    /\ gResponse.status \in StatusForcelist
    /\ gAttempts = RetryTotal + 1

\* C13: the ledger only grows.  Every step leaves the lines of the ledger
\* file in place and at most appends to them; the in-memory set of a
\* running process never loses an entry; and, since a new process loads
\* the file and every in-memory entry is a line of the file, an entry of
\* the file or of the set is in the set of every later running process.
C13_LedgerAppendOnly ==
    /\ [][ /\ Len(ledger_file') >= Len(ledger_file)
           /\ SubSeq(ledger_file', 1, Len(ledger_file)) = ledger_file ]_vars
    /\ [][ pc' # "start" => processed_files \subseteq processed_files' ]_vars
    /\ [](processed_files \subseteq load_processed_files)
    /\ [](pc # "start" => load_processed_files \subseteq processed_files)

C13_Witness ==
    /\ run = 2
    /\ pc = "walk"
    /\ ledger_file # << >>
    /\ Len(ledger_file) < Cardinality(RestructuredPaths)
    /\ processed_files = load_processed_files

\* the pages with text that this run passed over at the skip check
SkippedComplete ==
    {t.unit : t \in {u \in terminal : u.state = "Skipped"}}
        \cap PagesWithText

\* C14 as the specification states it: when the inputs are processed again,
\* the raw-text artifact of a page passed over because its restructured
\* artifact exists is written again in that run.
C14_RawRewritten ==
    (run >= 2 /\ pc = "done")
        => \A p \in SkippedComplete : RawSavePath(p.file, p.page) \in writes

\* C14: a page whose restructured artifact exists is passed over before
\* anything is written: the step writes no file, restructured or raw.  A
\* restructured artifact is written only when absent from disk, and a raw
\* artifact only for the page whose restructured artifact has just been
\* written in the same run: the raw write is behind the same skip check.
C14_RawBehindSkipCheck ==
    /\ [][ (AtPage /\ page_data.text # << >> /\ Exists(save_path))
            => (writes' = writes /\ disk' = disk /\ pc' = "page"
                /\ page_idx' = page_idx + 1) ]_vars
    /\ [][ \A path \in writes' \ writes :
             \/ path = save_path /\ path \notin disk
             \/ path = raw_save_path /\ save_path \in writes ]_vars

C14_Witness ==
    /\ run >= 2
    /\ pc = "done"
    /\ \E p \in SkippedComplete :
         /\ RawSavePath(p.file, p.page) \in disk
         /\ RawSavePath(p.file, p.page) \notin writes

\* C15: two source files with distinct paths have distinct output paths for
\* the same page number, so no page with text is passed over at the skip
\* check because of an artifact written for a page of another file.
C15_DistinctOutputPaths ==
    /\ \A p, q \in visited_pages :
          (p.file # q.file /\ p.page = q.page)
              => SavePath(p.file, p.page) # SavePath(q.file, q.page)
    /\ \A p \in SkippedComplete : SavePath(p.file, p.page) \notin writes

NonBlank(text) == \E i \in DOMAIN text : text[i] # " "

NativeNonBlank(n) ==
    /\ xFile.pages[n].native.kind = "str"
    /\ NonBlank(xFile.pages[n].native.text)

OcrNonBlank(n) ==
    /\ xFile.pages[n].ocr.kind = "str"
    /\ NonBlank(xFile.pages[n].ocr.text)

Emitted(n) == \E i \in DOMAIN xPages : xPages[i].page = n

PdfReturned == xPc = "returned" /\ xFile.kind = "pdf"

\* C16 as the specification states it: of every page n of the PDF, an
\* entry for n is returned exactly if its native text is non-blank, or is
\* blank and the OCR of the page returns non-blank text; entries are in
\* increasing page order; OCR is run only for pages of blank native text.
C16_PageEmission ==
    PdfReturned
        => /\ \A n \in 1..Len(xFile.pages) :
                 Emitted(n) <=> (NativeNonBlank(n) \/ OcrNonBlank(n))
           /\ \A i, j \in DOMAIN xPages :
                 i < j => xPages[i].page < xPages[j].page
           /\ \A n \in xOcr : ~NativeNonBlank(n)

\* C16: of every page n that the loop has read (the pages before the first
\* one whose reading raises, all pages of a file that opens and reads
\* without exception), an entry for n is returned exactly if its native
\* text is non-blank, or is blank and the OCR of the page returns non-blank
\* text; no entry is returned for a page that was not read; entries are in
\* increasing page order; OCR is run only for pages of blank native text,
\* and a page empty after both attempts has no entry.
C16_PageEmissionOfReadPages ==
    PdfReturned
        => /\ \A n \in 1..Len(xFile.pages) :
                 Emitted(n) <=>
                    (n <= xPage /\ (NativeNonBlank(n) \/ OcrNonBlank(n)))
           /\ \A i, j \in DOMAIN xPages :
                 i < j => xPages[i].page < xPages[j].page
           /\ \A n \in xOcr : ~NativeNonBlank(n)
           /\ \A n \in 1..xPage : ~NativeNonBlank(n) => n \in xOcr

C16_Witness ==
    /\ PdfReturned
    /\ xPage = Len(xFile.pages)
    /\ \E n \in xOcr : Emitted(n)
    /\ \E n \in xOcr : ~Emitted(n) /\ xFile.pages[n].ocr.kind = "Exception"

Aborted ==
    /\ xPc = "returned"
    /\ \/ ~xFile.openable
       \/ xPage < Len(xFile.pages)
       \/ xPage < Len(xFile.elements)

\* C17 as the specification states it: an extraction during which an
\* exception is raised does not let it out and returns no page.
C17_ExceptionZeroPages ==
    /\ xPc # "raised"
    /\ Aborted => xPages = << >>

\* C17: no exception leaves an extractor.  A DOCX extraction during which
\* an exception is raised returns no page; a PDF extraction returns the
\* pages collected before the exception: those of the pages read that have
\* non-blank native or OCR text, none if the file could not be opened.
C17_ExceptionPartialPages ==
    /\ xPc # "raised"
    /\ (Aborted /\ xFile.kind = "docx") => xPages = << >>
    /\ (Aborted /\ xFile.kind = "pdf") =>
          /\ \A n \in 1..Len(xFile.pages) :
                Emitted(n) <=>
                   (n <= xPage /\ (NativeNonBlank(n) \/ OcrNonBlank(n)))
          /\ ~xFile.openable => xPages = << >>

C17_Witness ==
    /\ Aborted
    /\ xFile.kind = "pdf"
    /\ xPage < Len(xFile.pages)
    /\ xFile.pages[xPage + 1].native.kind = "Exception"
    /\ xPages # << >>

\* both artifacts of the page among the files, its output path among the
\* lines of the ledger file and in the in-memory set
AllThreeIn(page, files, lines, set) ==
    /\ SavePath(page.file, page.page) \in files
    /\ RawSavePath(page.file, page.page) \in files
    /\ PathBasename(SavePath(page.file, page.page)) \in set
    /\ \E i \in DOMAIN lines : lines[i] = SavePath(page.file, page.page)

AllThree(page) == AllThreeIn(page, disk, ledger_file, processed_files)

\* C18 as the specification states it: a page for which a result was
\* obtained is finished with its restructured artifact written, its raw
\* artifact written and its output path in the ledger.
C18_AllThreePersisted ==
    [][ (Persisting /\ ~Persisting')
        => AllThreeIn(CurrentPage, disk', ledger_file',
                      processed_files') ]_vars

\* C18: a present result starts the persistence, whose steps come in the
\* order restructured artifact, raw artifact, ledger, each only after the
\* one before succeeded: the raw artifact is written only with the
\* restructured one on disk, the ledger only appended to, with the page's
\* output path, with both on disk.  The page is finished either with all
\* three done or as failed with a logged error, the steps already taken
\* staying in place.
C18_PersistInOrder ==
    /\ [][ (pc = "returned" /\ Truthy(result))
            => pc' = "write_restructured" ]_vars
    /\ [](pc = "write_raw" => save_path \in disk)
    /\ [](pc = "record" => {save_path, raw_save_path} \subseteq disk)
    /\ [][ ledger_file' # ledger_file
            => /\ pc = "record"
               /\ ledger_file' = Append(ledger_file, save_path) ]_vars
    /\ [][ (Persisting /\ ~Persisting')
            => \/ /\ End(CurrentPage, "Done") \in terminal'
                  /\ AllThreeIn(CurrentPage, disk', ledger_file',
                                processed_files')
               \/ /\ End(CurrentPage, "Failed") \in terminal'
                  /\ disk \subseteq disk' ]_vars

C18_Witness ==
    \E t \in {u \in terminal : u.unit \in AllPages} :
        /\ t.state = "Done"
        /\ AllThree(t.unit)
        /\ {SavePath(t.unit.file, t.unit.page),
            RawSavePath(t.unit.file, t.unit.page)} \subseteq writes

\* the pages and files that have ended in this run
Ended == {t.unit : t \in terminal}

\* C19: the process is at one place at a time, and a request with its
\* response is one step of it.  Chunk idx of a page is sent only when every
\* chunk before it has its outcome, content or failure, and a step
\* concludes at most one chunk; a page is started only when every page
\* before it in the file has ended (persisted, skipped or failed) and no
\* page is in progress; a file is started only when every eligible file
\* before it in the root has ended; the second root is walked only when
\* every eligible file of the first has ended.  (A new execution of the
\* program starts its own bookkeeping.)
C19_StrictlySequential ==
    /\ [](pc = "send" => Len(outcomes) = idx - 1)
    /\ [][ /\ Len(outcomes') <= Len(outcomes) + 1
           /\ Cardinality(sent' \ sent) <= 1
           /\ (pc = "send" /\ pc' = "send") => idx' \in {idx, idx + 1} ]_vars
    /\ [][ (visited_pages' # visited_pages /\ run' = run)
            => /\ AtPage
               /\ visited_pages' = visited_pages \cup {CurrentPage}
               /\ \A i \in 1..(page_idx - 1) :
                     PageId(CurrentFile, pages_content[i].page) \in Ended
               /\ CurrentPage \notin Ended ]_vars
    /\ [][ (visited_files' # visited_files /\ run' = run)
            => /\ pc = "walk"
               /\ visited_files' = visited_files \cup {CurrentFile}
               /\ \A i \in 1..(file_idx - 1) :
                     Eligible(Roots[root][i]) => Roots[root][i] \in Ended
               /\ \A p \in visited_pages : p \in Ended ]_vars
    /\ [](root = 2 =>
            \A i \in DOMAIN Roots[1] :
                Eligible(Roots[1][i]) => Roots[1][i] \in Ended)

C19_Witness ==
    /\ root = 2
    /\ pc = "send"
    /\ outcomes # << >>
    /\ \E t \in terminal : t.state = "Done" /\ t.unit \in AllPages
    /\ \E t \in terminal : t.state = "Failed" /\ t.unit \in EligibleFiles

\* C20: when a run is over, every eligible file and every page of it has
\* reached exactly one of the terminal states Done, Skipped and Failed.
C20_ExactlyOneTerminal ==
    pc = "done"
        => \A u \in EligibleFiles \cup AllPages :
              Cardinality({t \in terminal : t.unit = u}) = 1

\* C21: within a run the ledger changes only at the record step of a page
\* whose restructured and raw artifacts have both been written in this run
\* and are on disk; the step appends the page's output path to the file and
\* adds its base name to the in-memory set, or, the append failing, changes
\* neither; the record step is never reached before either write.
C21_RecordAfterBothWrites ==
    /\ [](pc = "record" => {save_path, raw_save_path} \subseteq writes)
    /\ [][ ((ledger_file' # ledger_file
                \/ processed_files' # processed_files)
             /\ pc # "start" /\ run' = run)
            => /\ pc = "record"
               /\ {save_path, raw_save_path} \subseteq (writes \cap disk)
               /\ ledger_file' = Append(ledger_file, save_path)
               /\ processed_files' =
                     processed_files \cup {PathBasename(save_path)} ]_vars
    /\ [][ (pc = "record" /\ ledger_file' = ledger_file)
            => processed_files' = processed_files ]_vars

C21_Witness ==
    /\ pc = "page"
    /\ ledger_file # << >>
    /\ \E t \in {u \in terminal : u.unit \in AllPages} :
         /\ t.state = "Done"
         /\ ledger_file[Len(ledger_file)]
               = SavePath(t.unit.file, t.unit.page)
         /\ RawSavePath(t.unit.file, t.unit.page) \in writes
    /\ \E t \in {u \in terminal : u.unit \in AllPages} :
         /\ t.state = "Failed"
         /\ {SavePath(t.unit.file, t.unit.page),
             RawSavePath(t.unit.file, t.unit.page)} \subseteq writes
         /\ ~InLedger(SavePath(t.unit.file, t.unit.page))
====
